---- MODULE Spec2Model ----
(***************************************************************************)
(* Model of the qibo custom TensorFlow operators                          *)
(*   ApplyGate       (kernels/apply_gate_kernels.cc)                       *)
(*   TransposeState  (kernels/transpose_state.cc)                          *)
(*   SwapPieces      (kernels/transpose_state.cc)                          *)
(* An amplitude is a Gaussian integer <<re, im>>; buffers are functions    *)
(* over 0 .. len-1, as the C++ arrays are.  One behaviour is one kernel    *)
(* invocation (SwapPieces may be invoked again on its own outputs).        *)
(***************************************************************************)
EXTENDS Integers, FiniteSets, Sequences, TLC

\* ------------------------------------------------------------ bounds
MaxQubits == 3
MaxThreads == 2
MaxCalls == 2

VARIABLES
  op,               \* which kernel this behaviour invokes
  device,           \* the Device template argument of the registered kernel
  pc,               \* position inside Compute
  status,           \* the OpKernelContext status
  outputSet,        \* whether context->set_output has run
  nqubits,          \* nqubits / nqubits_
  target,           \* ApplyGate: target; SwapPieces: target_ (new_global)
  controls,         \* ApplyGate: the qubits listed in the controls tensor
  gate,             \* ApplyGate: gate[0..3]
  state,            \* ApplyGate: the state buffer
  old_state,        \* history: state on entry to Compute
  units,            \* ApplyGate: the ranges [g, w) handed to DoWork, with progress
  ndevices,         \* TransposeState: ndevices_
  qubit_order,      \* TransposeState: qubit_order_
  pieces,           \* TransposeState: state[0..ndevices-1]; SwapPieces: piece0, piece1
  old_pieces,       \* history: pieces on entry to the first Compute
  transposed_state, \* TransposeState: the destination buffer
  threads,          \* omp_num_threads (threads_)
  pos,              \* next loop index of every OpenMP thread
  hits,             \* history: location -> number of loop iterations that accessed it
  oob,              \* history: an access fell outside its buffer (the behaviour is
                    \* undefined from there on; the properties require ~oob)
  ncalls            \* number of Compute calls started

vars == <<op, device, pc, status, outputSet, nqubits, target, controls, gate,
          state, old_state, units, ndevices, qubit_order, pieces, old_pieces,
          transposed_state, threads, pos, hits, oob, ncalls>>

\* ------------------------------------------------------------ arithmetic
Pow2(k) == 2 ^ k

RECURSIVE SumSet(_)
SumSet(S) == IF S = {} THEN 0
             ELSE LET x == CHOOSE y \in S : TRUE IN x + SumSet(S \ {x})

CAdd(a, b) == <<a[1] + b[1], a[2] + b[2]>>
CMul(a, b) == <<a[1] * b[1] - a[2] * b[2], a[1] * b[2] + a[2] * b[1]>>

MkGate(a, b, c, d) == (0 :> a) @@ (1 :> b) @@ (2 :> c) @@ (3 :> d)

\* Pauli-X, Pauli-Y and a matrix with four different entries
Gates == { MkGate(<<0, 0>>, <<1, 0>>, <<1, 0>>, <<0, 0>>),
           MkGate(<<0, 0>>, <<0, -1>>, <<0, 1>>, <<0, 0>>),
           MkGate(<<1, 0>>, <<0, 1>>, <<2, 0>>, <<1, 1>>) }

Seeds == {0, 1}
\* the amplitude a caller stores at global index x
Amp(seed, x) == IF seed = 0 THEN <<x + 1, 0>> ELSE <<x % 2, x + 1>>

Zero == <<0, 0>>

AddHit(h, loc) == IF loc \in DOMAIN h THEN [h EXCEPT ![loc] = @ + 1]
                  ELSE h @@ (loc :> 1)
Hit(loc) == IF loc \in DOMAIN hits THEN hits[loc] ELSE 0

NoUnits == [g \in {} |-> 0]
NoHits == [l \in {} |-> 0]
NoBuf == [x \in {} |-> Zero]

\* ------------------------------------------------------------ ApplyGate
nstates == Pow2(nqubits)
tk == Pow2(nqubits - target - 1)
cks == { Pow2(nqubits - c - 1) : c \in controls }
\* the control weights taken as 2^c instead of 2^(nqubits - c - 1)
cktot_LittleEndian == SumSet({ Pow2(c) : c \in controls })

cktot == SumSet({ Pow2(nqubits - c - 1) : c \in controls })

\* the eligibility loop over cks
apply(i) == \A q \in cks : (i \div q) % 2 = 0

\* PairUpdate without the buffer: state[i2] is computed from the new state[i1]
PairUpdate_NoBuffer(st, i) ==
  LET i1 == i + cktot
      i2 == i1 + tk
      s1 == [st EXCEPT ![i1] = CAdd(CMul(gate[0], st[i1]), CMul(gate[1], st[i2]))]
  IN  [s1 EXCEPT ![i2] = CAdd(CMul(gate[2], s1[i1]), CMul(gate[3], s1[i2]))]

\* the body of "if (apply)"
PairUpdate(st, i) ==
  LET i1 == i + cktot
      i2 == i1 + tk
      buffer == st[i1]
      s1 == [st EXCEPT ![i1] = CAdd(CMul(gate[0], st[i1]), CMul(gate[1], st[i2]))]
  IN  [s1 EXCEPT ![i2] = CAdd(CMul(gate[2], buffer), CMul(gate[3], s1[i2]))]

PairInRange(i) == i + cktot + tk < nstates

\* one iteration of DoWork's loop
DoWorkBody(st, i) == IF apply(i) /\ PairInRange(i) THEN PairUpdate(st, i) ELSE st

\* DoWork's loop running over the whole block instead of its lower half
DoWorkEnd_Block(g, w) == g + 2 * tk

\* the upper limit of DoWork's loop for the range [g, w)
DoWorkEnd(g, w) == g + tk

\* DoWork's loop from i to end, run alone
RECURSIVE RunLoop(_, _, _)
RunLoop(st, i, end) ==
  IF i >= end THEN st ELSE RunLoop(DoWorkBody(st, i), i + 1, end)

\* DoWork run for the blocks g, g + 2 * tk, ... one after the other
RECURSIVE RunBlocks(_, _)
RunBlocks(st, g) ==
  IF g >= nstates THEN st
  ELSE RunBlocks(RunLoop(st, g, DoWorkEnd(g, g + 2 * tk)), g + 2 * tk)

\* ------------------------------------------------------------ TransposeState
nstates_transpose == Pow2(nqubits)
npiece == nstates_transpose \div ndevices
\* the exponent one too large
qubit_exponents_OffByOne(q) == Pow2(nqubits - qubit_order[nqubits - q - 1])
\* qubit_order read from the front
qubit_exponents_Forward(q) == Pow2(nqubits - qubit_order[q] - 1)

qubit_exponents(q) == Pow2(nqubits - qubit_order[nqubits - q - 1] - 1)

\* the inner loop over q: k accumulated from bit q upwards
RECURSIVE SourceIndexFrom(_, _)
SourceIndexFrom(g, q) ==
  IF q >= nqubits THEN 0
  ELSE (IF (g \div Pow2(q)) % 2 = 1 THEN qubit_exponents(q) ELSE 0)
       + SourceIndexFrom(g, q + 1)

SourceIndex(g) == SourceIndexFrom(g, 0)
SourcePiece(k) == k \div npiece
SourceOffset(k) == k % npiece

\* ------------------------------------------------------------ SwapPieces
m == nqubits - target - 1
tk_swap == Pow2(m)
nstates_swap == Pow2(nqubits - 1)
\* the removed bit not reinserted: (g >> m) << m
SwapIndex_NoGap(g) == (g \div Pow2(m)) * Pow2(m) + (g % tk_swap)
\* the shift one too far: (g >> m) << (m + 2)
SwapIndex_WideGap(g) == (g \div Pow2(m)) * Pow2(m + 2) + (g % tk_swap)

\* ((g >> m) << (m + 1)) + (g & (tk - 1))
SwapIndex(g) == (g \div Pow2(m)) * Pow2(m + 1) + (g % tk_swap)
\* two assignments without a temporary
SwapEntries_NoTemp(ps, a, b) ==
  LET p1 == [ps EXCEPT ![0][a] = ps[1][b]] IN [p1 EXCEPT ![1][b] = p1[0][a]]

\* std::swap(piece0[a], piece1[b])
SwapEntries(ps, a, b) == [ps EXCEPT ![0][a] = ps[1][b], ![1][b] = ps[0][a]]
\* the pieces hold one amplitude per value of the nqubits local qubits
PieceLen == Pow2(nqubits)

\* ------------------------------------------------------------ OpenMP loop
\* "#pragma omp parallel for" with the static schedule: thread t runs the
\* iterations [ChunkLo(t), ChunkHi(t)) in order, the threads interleave freely
LoopCount == IF op = "TransposeState" THEN nstates_transpose ELSE nstates_swap
ChunkLo(t) == (t * LoopCount) \div threads
ChunkHi(t) == ((t + 1) * LoopCount) \div threads

\* what an out-of-bounds read may deliver
Garbage == {Zero, <<-1, -1>>}

\* ------------------------------------------------------------ Init
Devices == {"CPU", "GPU"}
QubitOrders(n) == { f \in [0 .. n - 1 -> 0 .. n - 1] :
                       \A a, b \in 0 .. n - 1 : a # b => f[a] # f[b] }

InitCommon ==
  /\ device \in Devices
  /\ pc = "start"
  /\ status = "OK"
  /\ outputSet = FALSE
  /\ units = NoUnits
  /\ hits = NoHits
  /\ oob = FALSE
  /\ ncalls = 1
  /\ nqubits \in 1 .. MaxQubits

InitApplyGate ==
  /\ op = "ApplyGate"
  /\ target \in 0 .. nqubits - 1
  /\ controls \in SUBSET ((0 .. nqubits - 1) \ {target})
  /\ gate \in Gates
  /\ \E seed \in Seeds : state = [x \in 0 .. Pow2(nqubits) - 1 |-> Amp(seed, x)]
  /\ old_state = state
  /\ ndevices = 1 /\ qubit_order = <<>> /\ pieces = <<>> /\ old_pieces = <<>>
  /\ transposed_state = NoBuf /\ threads = 1 /\ pos = <<>>

InitTransposeState ==
  /\ op = "TransposeState"
  /\ ndevices \in { Pow2(d) : d \in 0 .. nqubits }
  /\ qubit_order \in QubitOrders(nqubits)
  /\ threads \in 1 .. MaxThreads
  /\ \E seed \in Seeds :
       pieces = [p \in 0 .. ndevices - 1 |->
                  [o \in 0 .. (Pow2(nqubits) \div ndevices) - 1 |->
                     Amp(seed, p * (Pow2(nqubits) \div ndevices) + o)]]
  /\ old_pieces = pieces
  /\ transposed_state = [g \in 0 .. Pow2(nqubits) - 1 |-> Zero]
  /\ pos = <<>>
  /\ target = 0 /\ controls = {} /\ gate = <<>> /\ state = NoBuf /\ old_state = NoBuf

InitSwapPieces ==
  /\ op = "SwapPieces"
  /\ target \in 0 .. nqubits - 1
  /\ threads \in 1 .. MaxThreads
  /\ \E seed \in Seeds :
       pieces = [p \in 0 .. 1 |->
                  [o \in 0 .. Pow2(nqubits) - 1 |-> Amp(seed, p * Pow2(nqubits) + o)]]
  /\ old_pieces = pieces
  /\ pos = <<>>
  /\ ndevices = 2 /\ qubit_order = <<>> /\ transposed_state = NoBuf
  /\ controls = {} /\ gate = <<>> /\ state = NoBuf /\ old_state = NoBuf

Init == InitCommon /\ (InitApplyGate \/ InitTransposeState \/ InitSwapPieces)

\* ------------------------------------------------------------ Compute
\* the device guard left out
DeviceSupported_Always(d) == d \in Devices

\* std::is_same<Device, CPUDevice>::value == true
DeviceSupported(d) == d = "CPU"

\* OP_REQUIRES(..., errors::Unimplemented(...)), then the functor is entered
Require(kernel) ==
  /\ op = kernel /\ pc = "start"
  /\ IF DeviceSupported(device)
       THEN pc' = "functor" /\ status' = status
       ELSE pc' = "error" /\ status' = "Unimplemented"
  /\ UNCHANGED <<op, device, outputSet, nqubits, target, controls, gate, state,
                 old_state, units, ndevices, qubit_order, pieces, old_pieces,
                 transposed_state, threads, pos, hits, oob, ncalls>>

ApplyGateCompute == Require("ApplyGate")
TransposeStateCompute == Require("TransposeState")
SwapPiecesCompute == Require("SwapPieces")

\* ------------------------------------------------------------ ApplyGate run
\* the block starts thread_pool->ParallelFor may choose: multiples of 2 * tk
BlockStarts == { g \in 0 .. nstates - 1 : g % (2 * tk) = 0 }
RangeEnd(starts, g) ==
  IF \E h \in starts : h > g
    THEN CHOOSE h \in starts : h > g /\ \A h2 \in starts : h2 > g => h <= h2
    ELSE nstates

\* thread_pool->ParallelFor(nstates, p, DoWork): the index space is cut into
\* contiguous ranges [g, w), each handed to DoWork once
ParallelFor ==
  /\ op = "ApplyGate" /\ pc = "functor"
  /\ \E cuts \in SUBSET (BlockStarts \ {0}) :
       LET starts == {0} \cup cuts IN
       units' = [g \in starts |->
                   [w |-> RangeEnd(starts, g), i |-> g, touched |-> {}]]
  /\ pc' = "parallel"
  /\ UNCHANGED <<op, device, status, outputSet, nqubits, target, controls, gate,
                 state, old_state, ndevices, qubit_order, pieces, old_pieces,
                 transposed_state, threads, pos, hits, oob, ncalls>>

Touched(i) == IF apply(i) THEN {i + cktot, i + cktot + tk} ELSE {}

\* one iteration of the loop of DoWork(g, w).  buffer is private to the call and
\* the iteration accesses state[i1] and state[i2] only; both are recorded in the
\* unit's touched set, so an overlap between concurrent units shows there.
DoWork(g) ==
  /\ op = "ApplyGate" /\ pc = "parallel"
  /\ units[g].i < DoWorkEnd(g, units[g].w)
  /\ LET i == units[g].i IN
       /\ state' = DoWorkBody(state, i)
       /\ oob' = (oob \/ (apply(i) /\ ~PairInRange(i)))
       /\ hits' = IF apply(i)
                    THEN AddHit(AddHit(hits, <<0, i + cktot>>), <<0, i + cktot + tk>>)
                    ELSE hits
       /\ units' = [units EXCEPT ![g].i = i + 1,
                                 ![g].touched = @ \cup Touched(i)]
  /\ UNCHANGED <<op, device, pc, status, outputSet, nqubits, target, controls,
                 gate, old_state, ndevices, qubit_order, pieces, old_pieces,
                 transposed_state, threads, pos, ncalls>>

\* ------------------------------------------------------------ OpenMP run
\* entry of the parallel region
OmpFork ==
  /\ op \in {"TransposeState", "SwapPieces"} /\ pc = "functor"
  /\ pos' = [t \in 0 .. threads - 1 |-> ChunkLo(t)]
  /\ pc' = "parallel"
  /\ UNCHANGED <<op, device, status, outputSet, nqubits, target, controls, gate,
                 state, old_state, units, ndevices, qubit_order, pieces,
                 old_pieces, transposed_state, threads, hits, oob, ncalls>>

\* one iteration g of the loop of TransposeStateFunctor
TransposeIter(t) ==
  /\ op = "TransposeState" /\ pc = "parallel"
  /\ pos[t] < ChunkHi(t)
  /\ LET g == pos[t]
         k == SourceIndex(g)
         p == SourcePiece(k)
         o == SourceOffset(k)
         ok == p \in DOMAIN pieces /\ o \in DOMAIN pieces[p]
     IN  /\ IF ok
              THEN transposed_state' = [transposed_state EXCEPT ![g] = pieces[p][o]]
              ELSE transposed_state' \in
                     { [transposed_state EXCEPT ![g] = v] : v \in Garbage }
         /\ oob' = (oob \/ ~ok)
         /\ hits' = AddHit(AddHit(hits, <<p, o>>), <<-1, g>>)
  /\ pos' = [pos EXCEPT ![t] = @ + 1]
  /\ UNCHANGED <<op, device, pc, status, outputSet, nqubits, target, controls,
                 gate, state, old_state, units, ndevices, qubit_order, pieces,
                 old_pieces, threads, ncalls>>

\* one iteration g of the loop of SwapPiecesFunctor
SwapIter(t) ==
  /\ op = "SwapPieces" /\ pc = "parallel"
  /\ pos[t] < ChunkHi(t)
  /\ LET g == pos[t]
         i == SwapIndex(g)
         ok == i + tk_swap \in 0 .. PieceLen - 1 /\ i \in 0 .. PieceLen - 1
     IN  /\ IF ok
              THEN pieces' = SwapEntries(pieces, i + tk_swap, i)
              ELSE pieces' = pieces
         /\ oob' = (oob \/ ~ok)
         /\ hits' = AddHit(AddHit(hits, <<0, i + tk_swap>>), <<1, i>>)
  /\ pos' = [pos EXCEPT ![t] = @ + 1]
  /\ UNCHANGED <<op, device, pc, status, outputSet, nqubits, target, controls,
                 gate, state, old_state, units, ndevices, qubit_order,
                 old_pieces, transposed_state, threads, ncalls>>

\* ------------------------------------------------------------ return
WorkFinished ==
  IF op = "ApplyGate"
    THEN \A g \in DOMAIN units : units[g].i >= DoWorkEnd(g, units[g].w)
    ELSE \A t \in DOMAIN pos : pos[t] >= ChunkHi(t)

\* the parallel loop has joined, the functor returns, context->set_output
Return(kernel) ==
  /\ op = kernel /\ pc = "parallel" /\ WorkFinished
  /\ pc' = "done"
  /\ outputSet' = TRUE
  /\ UNCHANGED <<op, device, status, nqubits, target, controls, gate, state,
                 old_state, units, ndevices, qubit_order, pieces, old_pieces,
                 transposed_state, threads, pos, hits, oob, ncalls>>

ApplyGateSetOutput == Return("ApplyGate")
TransposeStateSetOutput == Return("TransposeState")
SwapPiecesSetOutput == Return("SwapPieces")

\* the caller hands the outputs of SwapPieces to the same kernel again
SwapAgain ==
  /\ op = "SwapPieces" /\ pc = "done" /\ ncalls < MaxCalls
  /\ pc' = "start"
  /\ ncalls' = ncalls + 1
  /\ outputSet' = FALSE
  /\ hits' = NoHits
  /\ pos' = <<>>
  /\ UNCHANGED <<op, device, status, nqubits, target, controls, gate, state,
                 old_state, units, ndevices, qubit_order, pieces, old_pieces,
                 transposed_state, threads, oob>>

Next ==
  \/ ApplyGateCompute
  \/ TransposeStateCompute
  \/ SwapPiecesCompute
  \/ ParallelFor
  \/ \E g \in DOMAIN units : DoWork(g)
  \/ OmpFork
  \/ \E t \in DOMAIN pos : TransposeIter(t)
  \/ \E t \in DOMAIN pos : SwapIter(t)
  \/ ApplyGateSetOutput
  \/ TransposeStateSetOutput
  \/ SwapPiecesSetOutput
  \/ SwapAgain

Spec == Init /\ [][Next]_vars

\* ============================================================ properties
\* the value of qubit q (counted from the most significant bit) in index x
QubitBit(x, q) == (x \div Pow2(nqubits - q - 1)) % 2
AllControlsSet(x) == \A c \in controls : QubitBit(x, c) = 1
Indices == 0 .. Pow2(nqubits) - 1
\* every block of size 2 * tk was handed to DoWork as a range of its own
PerBlock == DOMAIN units = BlockStarts
GateDone == op = "ApplyGate" /\ pc = "done"

\* C1: when every window [g, g + 2*tk) is dispatched once, every pair (i1, i2 = i1 + tk)
\* with target bit 0 and all control bits 1 ends as gate * (old[i1], old[i2]), computed
\* from the values before the call, and is transformed exactly once.
C1_UpdateRule ==
  (GateDone /\ PerBlock) =>
    ~oob /\
    \A i1 \in Indices :
      (QubitBit(i1, target) = 0 /\ AllControlsSet(i1)) =>
        LET i2 == i1 + Pow2(nqubits - target - 1) IN
        /\ state[i1] = CAdd(CMul(gate[0], old_state[i1]), CMul(gate[1], old_state[i2]))
        /\ state[i2] = CAdd(CMul(gate[2], old_state[i1]), CMul(gate[3], old_state[i2]))
        /\ Hit(<<0, i1>>) = 1
        /\ Hit(<<0, i2>>) = 1

C1_Witness ==
  /\ GateDone /\ PerBlock
  /\ nqubits = MaxQubits /\ controls # {} /\ Cardinality(DOMAIN units) > 1
  /\ \E i1 \in Indices : QubitBit(i1, target) = 0 /\ AllControlsSet(i1)
                         /\ state[i1] # old_state[i1]

\* C2: whatever contiguous ranges with bounds at multiples of 2*tk the dispatcher hands
\* to DoWork, the final state is the one obtained with one range per window.
C2_PartitionIndependent ==
  GateDone => state = RunBlocks(old_state, 0)

\* C3: with a non-empty control set, an amplitude at an index whose control bits are not
\* all 1 is never written: it keeps its value from before the call.
C3_Frame ==
  (op = "ApplyGate" /\ controls # {}) =>
    /\ ~oob
    /\ \A x \in Indices :
         ~AllControlsSet(x) => (state[x] = old_state[x] /\ Hit(<<0, x>>) = 0)

C3_Witness ==
  /\ GateDone /\ controls # {} /\ state # old_state
  /\ \E c \in controls : c < target

\* C4: with one work unit per window, the index sets accessed by two distinct units are
\* disjoint, and the final state is that of running the windows one after the other.
C4_RaceFree ==
  (op = "ApplyGate" /\ PerBlock) =>
    /\ \A g, h \in DOMAIN units :
         g # h => units[g].touched \cap units[h].touched = {}
    /\ ~oob
    /\ pc = "done" => state = RunBlocks(old_state, 0)

C4_Witness ==
  /\ GateDone /\ PerBlock /\ Cardinality(DOMAIN units) > 1
  /\ \E g \in DOMAIN units :
       /\ units[g].touched # {}
       /\ \A x \in units[g].touched : x >= units[g].w
  /\ \E g, h \in DOMAIN units : g # h /\ units[g].touched # {} /\ units[h].touched # {}

\* the source index of output index g, as the sum over the set bits q of g
BitSumSource(g) ==
  SumSet({ Pow2(nqubits - qubit_order[nqubits - q - 1] - 1) :
             q \in { r \in 0 .. nqubits - 1 : (g \div Pow2(r)) % 2 = 1 } })
TransposeDone == op = "TransposeState" /\ pc = "done"

\* C5: for a permutation qubit_order and a power-of-two ndevices, g -> k is one-to-one
\* from [0, 2^n) onto [0, 2^n), every read is in bounds, transposed_state[g] is
\* state[k / npiece][k % npiece] and every source amplitude is read exactly once.
C5_Bijection ==
  (op = "TransposeState") =>
    /\ ~oob
    /\ pc = "functor" =>
         /\ \A g \in Indices : SourceIndex(g) = BitSumSource(g)
         /\ \A g1, g2 \in Indices : g1 # g2 => SourceIndex(g1) # SourceIndex(g2)
         /\ { SourceIndex(g) : g \in Indices } = Indices
    /\ pc = "done" =>
         /\ \A g \in Indices :
              LET k == BitSumSource(g)
                  np == Pow2(nqubits) \div ndevices
              IN  transposed_state[g] = old_pieces[k \div np][k % np]
         /\ \A p \in DOMAIN old_pieces : \A o \in DOMAIN old_pieces[p] :
              Hit(<<p, o>>) = 1
         /\ \A g \in Indices : Hit(<<-1, g>>) = 1
         /\ \A p \in DOMAIN old_pieces : \A o \in DOMAIN old_pieces[p] :
              Cardinality({ g \in Indices : transposed_state[g] = old_pieces[p][o] }) = 1

C5_Witness ==
  /\ TransposeDone /\ nqubits = MaxQubits /\ ndevices > 1
  /\ \E g \in Indices : SourceIndex(g) # g
  /\ \E g \in Indices : SourcePiece(SourceIndex(g)) = ndevices - 1

IdentityOrder == qubit_order = [j \in 0 .. nqubits - 1 |-> j]

\* C6: with the identity qubit order the result is the pieces concatenated in device
\* order (the single piece itself when ndevices = 1), and the pieces are not modified.
C6_IdentityOrder ==
  (op = "TransposeState" /\ IdentityOrder) =>
    /\ pieces = old_pieces
    /\ pc = "done" =>
         /\ \A g \in Indices :
              LET np == Pow2(nqubits) \div ndevices
              IN  transposed_state[g] = old_pieces[g \div np][g % np]
         /\ ndevices = 1 => transposed_state = old_pieces[0]

C6_Witness ==
  /\ TransposeDone /\ IdentityOrder /\ nqubits = MaxQubits /\ ndevices > 1
  /\ transposed_state[Pow2(nqubits) - 1] =
       old_pieces[ndevices - 1][(Pow2(nqubits) \div ndevices) - 1]

SwapDone == op = "SwapPieces" /\ pc = "done"

\* C7 as stated: every index SwapPieces accesses lies in [0, 2^(nqubits-1)).
C7_WithinHalfLength ==
  (op = "SwapPieces") =>
    \A loc \in DOMAIN hits : loc[2] \in 0 .. Pow2(nqubits - 1) - 1

\* C7 amended: with piece0 and piece1 each of length 2^nqubits, every index SwapPieces
\* reads or writes (i in piece1, i + tk in piece0) lies in [0, 2^nqubits).
C7_WithinPiece ==
  (op = "SwapPieces") =>
    /\ ~oob
    /\ \A loc \in DOMAIN hits : loc[2] \in 0 .. Pow2(nqubits) - 1
    /\ pc = "functor" =>
         \A g \in 0 .. Pow2(nqubits - 1) - 1 :
           /\ SwapIndex(g) \in 0 .. Pow2(nqubits) - 1
           /\ SwapIndex(g) + tk_swap \in 0 .. Pow2(nqubits) - 1

C7_Witness ==
  /\ SwapDone /\ nqubits = MaxQubits
  /\ Hit(<<0, Pow2(nqubits) - 1>>) = 1
  /\ Hit(<<1, 0>>) = 1

\* C8: SwapPieces applied twice in a row with the same new_global and nqubits to the
\* same two pieces leaves piece0 and piece1 with their original contents.
C8_SelfInverse ==
  (SwapDone /\ ncalls = 2) => (~oob /\ pieces = old_pieces)

C8_Witness ==
  /\ SwapDone /\ ncalls = 2 /\ nqubits = MaxQubits /\ pieces = old_pieces
  /\ Cardinality(DOMAIN hits) = Pow2(nqubits)

\* C9: after one call piece0[j] (bit m of j set) holds the old piece1[j - tk], piece1[j]
\* (bit m clear) the old piece0[j + tk], every other entry is unchanged, g -> i is
\* injective and no location is accessed by two loop iterations.
C9_HalfExchanged ==
  (op = "SwapPieces") =>
    LET mm == nqubits - target - 1
        t2 == Pow2(mm)
        MBit(j) == (j \div t2) % 2
    IN
    /\ ~oob
    /\ \A loc \in DOMAIN hits : hits[loc] = 1
    /\ pc = "functor" =>
         \A g1, g2 \in 0 .. Pow2(nqubits - 1) - 1 :
           g1 # g2 => SwapIndex(g1) # SwapIndex(g2)
    /\ (pc = "done" /\ ncalls = 1) =>
         /\ \A j \in Indices :
              /\ MBit(j) = 1 => /\ pieces[0][j] = old_pieces[1][j - t2]
                                /\ pieces[1][j] = old_pieces[1][j]
              /\ MBit(j) = 0 => /\ pieces[1][j] = old_pieces[0][j + t2]
                                /\ pieces[0][j] = old_pieces[0][j]
         /\ Cardinality({ loc \in DOMAIN hits : loc[1] = 0 }) = Pow2(nqubits - 1)
         /\ Cardinality({ loc \in DOMAIN hits : loc[1] = 1 }) = Pow2(nqubits - 1)

C9_Witness ==
  /\ SwapDone /\ ncalls = 1 /\ nqubits = MaxQubits /\ threads > 1
  /\ target # 0 /\ target # nqubits - 1
  /\ pieces # old_pieces

\* C10: on a device other than the CPU every kernel ends in the Unimplemented error
\* before its functor runs, no buffer is modified and no output is set; on the CPU the
\* error is never raised.
C10_FailFast ==
  /\ device # "CPU" =>
       /\ pc \in {"start", "error"}
       /\ (pc = "error") = (status = "Unimplemented")
       /\ ~outputSet
       /\ state = old_state /\ pieces = old_pieces
       /\ \A g \in DOMAIN transposed_state : transposed_state[g] = Zero
       /\ hits = NoHits
  /\ device = "CPU" => (status = "OK" /\ pc # "error")

C10_Witness ==
  /\ device = "GPU" /\ pc = "error" /\ status = "Unimplemented"
  /\ op = "TransposeState"

====
